---- MODULE Spec2Model ----
(***************************************************************************)
(* Model of gddo-server/pkgsite.go: the tee filter (shouldTeeRequest), the *)
(* analytics event (newGDDOEvent), the redirect decision                   *)
(* (shouldRedirectToPkgGoDev), the redirect handler with its consent       *)
(* cookie (pkgGoDevRedirectHandler) and the URL mapping (pkgGoDevURL).     *)
(*                                                                         *)
(* Strings are TLA+ strings; Len and SubSeq read them byte by byte.        *)
(* A query string or form body is the sequence of <<key, value>> pairs it  *)
(* parses to, in the order written.                                        *)
(* An event's Header and Latency are copied from the request and the      *)
(* caller unread, and are left out.                                        *)
(***************************************************************************)
EXTENDS Integers, Sequences, FiniteSets, TLC

VARIABLES
    jar,      \* the client's stored pkggodev-redirect cookie: <<>> or <<value>>
    prev,     \* what the client's previous request asked for (history)
    req,      \* the request being served
    resp,     \* what pkgGoDevRedirectHandler did with it
    event,    \* makePkgGoDevRequest's outcome for it
    pc,       \* "idle" | "handled" | "teed" | "pure"
    u,        \* input of the pure functions: a godoc.org URL
    dest,     \* <<>> or <<pkgGoDevURL(u)>>
    teeOk     \* <<>> or <<shouldTeeRequest(u.Path)>>

vars == <<jar, prev, req, resp, event, pc, u, dest, teeOk>>

----------------------------------------------------------------------------
(* Bounds *)

MaxQueryLen == 2

(* Program constants *)

pkgGoDevRedirectCookie == "pkggodev-redirect"
pkgGoDevRedirectParam == "redirect"
pkgGoDevRedirectOn == "on"
pkgGoDevRedirectOff == "off"
pkgGoDevHost == "pkg.go.dev"
teeproxyHost == "teeproxy-dot-go-discovery.appspot.com"
StatusFound == 302
DeleteMaxAge == -1

----------------------------------------------------------------------------
(* strings *)

HasPrefix(s, p) == Len(s) >= Len(p) /\ SubSeq(s, 1, Len(p)) = p

HasSuffix(s, p) == Len(s) >= Len(p) /\ SubSeq(s, Len(s) - Len(p) + 1, Len(s)) = p

Contains(s, p) == \E i \in 1..(Len(s) - Len(p) + 1) : SubSeq(s, i, i + Len(p) - 1) = p

(* filepath.Ext: scan back from the end, stop at a separator, return from *)
(* the first dot met.                                                      *)
RECURSIVE ExtFrom(_, _)
ExtFrom(path, i) ==
    IF i < 1 \/ SubSeq(path, i, i) = "/" THEN ""
    ELSE IF SubSeq(path, i, i) = "." THEN SubSeq(path, i, Len(path))
    ELSE ExtFrom(path, i - 1)

Ext(path) == ExtFrom(path, Len(path))

----------------------------------------------------------------------------
(* url.Values *)

(* Values.Get / the first value of key in a parsed pair list, "" if none *)
RECURSIVE First(_, _)
First(pairs, key) ==
    IF pairs = <<>> THEN ""
    ELSE IF Head(pairs)[1] = key THEN Head(pairs)[2]
    ELSE First(Tail(pairs), key)

HasKey(pairs, key) == \E i \in 1..Len(pairs) : pairs[i][1] = key

(* Values.Set: the key's values are replaced by the one value *)
ValuesSet(q, key, value) ==
    [k \in DOMAIN q \cup {key} |-> IF k = key THEN <<value>> ELSE q[k]]

(* Values.Add: the value is appended to the key's values *)
ValuesAdd(q, key, value) ==
    [k \in DOMAIN q \cup {key} |->
        IF k = key THEN (IF key \in DOMAIN q THEN Append(q[key], value) ELSE <<value>>)
        ELSE q[k]]

(* The keys pkgGoDevURL writes, in the byte order Values.Encode sorts by *)
SortedKeys == <<"q", "tab", "utm_source">>

RECURSIVE EncodeFrom(_, _)
EncodeFrom(q, i) ==
    IF i > Len(SortedKeys) THEN <<>>
    ELSE (IF SortedKeys[i] \in DOMAIN q
          THEN [j \in 1..Len(q[SortedKeys[i]]) |-> <<SortedKeys[i], q[SortedKeys[i]][j]>>]
          ELSE <<>>) \o EncodeFrom(q, i + 1)

(* Values.Encode: key=value pairs sorted by key; the percent-escaping of   *)
(* the bytes of a key or value is left out, values are compared as written *)
Encode(q) == EncodeFrom(q, 1)

----------------------------------------------------------------------------
(* shouldTeeRequest *)

doNotTeeURLsToPkgGoDev == {"/-/bot", "/-/refresh"}

doNotTeeExtsToPkgGoDev == {".css", ".html", ".js", ".txt", ".xml"}

(* Faulty variant: the reserved prefix is tested without its closing slash *)
shouldTeeRequest_PrefixWithoutSlash(path) ==
    IF HasPrefix(path, "/_ah") THEN FALSE
    ELSE IF Ext(path) \in doNotTeeExtsToPkgGoDev THEN FALSE
    ELSE IF path \in doNotTeeURLsToPkgGoDev THEN FALSE
    ELSE TRUE

shouldTeeRequest(path) ==
    IF HasPrefix(path, "/_ah/") THEN FALSE
    ELSE IF Ext(path) \in doNotTeeExtsToPkgGoDev THEN FALSE
    ELSE IF path \in doNotTeeURLsToPkgGoDev THEN FALSE
    ELSE TRUE

----------------------------------------------------------------------------
(* pkgGoDevURL *)

AttributionQuery == [k \in {"utm_source"} |-> <<"godoc">>]

NewURL(path, q) ==
    [Scheme |-> "https", Host |-> pkgGoDevHost, Path |-> path, RawQuery |-> Encode(q)]

(* Faulty variant: the vendor branch returns before the query is written *)
VendorURL_WithoutQuery ==
    [Scheme |-> "https", Host |-> pkgGoDevHost, Path |-> "/", RawQuery |-> <<>>]

(* The vendor branch's early return *)
VendorURL == NewURL("/", AttributionQuery)

(* Faulty variant: the importers parameter is looked at before the imports one *)
DefaultTab_ImportersFirst(query) ==
    IF HasKey(query, "importers") THEN "importedby"
    ELSE IF HasKey(query, "imports") THEN "imports"
    ELSE "doc"

(* The default branch's tab *)
DefaultTab(query) ==
    IF HasKey(query, "imports") THEN "imports"
    ELSE IF HasKey(query, "importers") THEN "importedby"
    ELSE "doc"

pkgGoDevURL(godocURL) ==
    IF Contains(godocURL.Path, "/vendor/") \/ HasSuffix(godocURL.Path, "/vendor")
    THEN VendorURL
    ELSE IF godocURL.Path = "/-/go"
    THEN NewURL("/std", ValuesAdd(AttributionQuery, "tab", "packages"))
    ELSE IF godocURL.Path = "/-/about"
    THEN NewURL("/about", AttributionQuery)
    ELSE IF godocURL.Path = "/"
    THEN (IF First(godocURL.RawQuery, "q") # ""
          THEN NewURL("/search", ValuesSet(AttributionQuery, "q", First(godocURL.RawQuery, "q")))
          ELSE NewURL("/", AttributionQuery))
    ELSE IF godocURL.Path = "/-/subrepo"
    THEN NewURL("/search", ValuesSet(AttributionQuery, "q", "golang.org/x"))
    ELSE NewURL(godocURL.Path, ValuesSet(AttributionQuery, "tab", DefaultTab(godocURL.RawQuery)))

----------------------------------------------------------------------------
(* requests *)

(* Request.Form as ParseMultipartForm leaves it: the fields of a           *)
(* urlencoded POST/PUT/PATCH body come before the URL query's, the fields  *)
(* of a multipart body after them; any other body is not read.             *)
Form(r) ==
    IF r.ContentType = "application/x-www-form-urlencoded"
       /\ r.Method \in {"POST", "PUT", "PATCH"}
    THEN r.Body \o r.URL.RawQuery
    ELSE IF r.ContentType = "multipart/form-data"
    THEN r.URL.RawQuery \o r.Body
    ELSE r.URL.RawQuery

(* Request.FormValue: the first value of key in the form, "" if none *)
FormValue(r, key) == First(Form(r), key)

(* Request.Cookie: the first cookie of that name; <<>> is ErrNoCookie *)
Cookie(r, name) ==
    LET named == SelectSeq(r.Cookies, LAMBDA c : c.Name = name)
    IN  IF named = <<>> THEN <<>> ELSE <<Head(named)>>

(* Faulty variant: the marker is compared with the value pkgGoDevURL attaches *)
userReturningFromPkgGoDev_Godoc(r) == FormValue(r, "utm_source") = "godoc"

userReturningFromPkgGoDev(r) == FormValue(r, "utm_source") = "backtogodoc"

(* Faulty variant: the cookie is read before the redirect parameter *)
shouldRedirectToPkgGoDev_CookieFirst(r) ==
    IF HasPrefix(r.URL.Host, "api") THEN FALSE
    ELSE LET cookie == Cookie(r, pkgGoDevRedirectCookie)
         IN  IF cookie # <<>> /\ cookie[1].Value = pkgGoDevRedirectOn THEN TRUE
             ELSE FormValue(r, pkgGoDevRedirectParam) = pkgGoDevRedirectOn

(* Faulty variant: API hosts are not told apart *)
shouldRedirectToPkgGoDev_AnyHost(r) ==
    IF FormValue(r, pkgGoDevRedirectParam) \in {pkgGoDevRedirectOn, pkgGoDevRedirectOff}
    THEN FormValue(r, pkgGoDevRedirectParam) = pkgGoDevRedirectOn
    ELSE LET cookie == Cookie(r, pkgGoDevRedirectCookie)
         IN  cookie # <<>> /\ cookie[1].Value = pkgGoDevRedirectOn

shouldRedirectToPkgGoDev(r) ==
    IF HasPrefix(r.URL.Host, "api") THEN FALSE
    ELSE IF FormValue(r, pkgGoDevRedirectParam) \in {pkgGoDevRedirectOn, pkgGoDevRedirectOff}
    THEN FormValue(r, pkgGoDevRedirectParam) = pkgGoDevRedirectOn
    ELSE LET cookie == Cookie(r, pkgGoDevRedirectCookie)
         IN  cookie # <<>> /\ cookie[1].Value = pkgGoDevRedirectOn

----------------------------------------------------------------------------
(* pkgGoDevRedirectHandler *)

(* Faulty variant: redirect=off writes no cookie *)
ConsentCookies_OffIgnored(redirectParam) ==
    IF redirectParam = pkgGoDevRedirectOn
    THEN <<[Name |-> pkgGoDevRedirectCookie, Value |-> redirectParam,
            MaxAge |-> 0, Path |-> "/"]>>
    ELSE <<>>

(* Faulty variant: redirect=off is stored as a value *)
ConsentCookies_OffStored(redirectParam) ==
    IF redirectParam \in {pkgGoDevRedirectOn, pkgGoDevRedirectOff}
    THEN <<[Name |-> pkgGoDevRedirectCookie, Value |-> redirectParam,
            MaxAge |-> 0, Path |-> "/"]>>
    ELSE <<>>

(* The cookies the handler writes for the redirect parameter *)
ConsentCookies(redirectParam) ==
    (IF redirectParam = pkgGoDevRedirectOn
     THEN <<[Name |-> pkgGoDevRedirectCookie, Value |-> redirectParam,
             MaxAge |-> 0, Path |-> "/"]>>
     ELSE <<>>)
    \o
    (IF redirectParam = pkgGoDevRedirectOff
     THEN <<[Name |-> pkgGoDevRedirectCookie, Value |-> "",
             MaxAge |-> DeleteMaxAge, Path |-> "/"]>>
     ELSE <<>>)

(* Faulty variant: the request coming back from pkg.go.dev is not passed on first *)
Response_ReturnIgnored(r) ==
    IF ~shouldRedirectToPkgGoDev(r)
    THEN [Status |-> 0, Location |-> <<>>,
          SetCookie |-> ConsentCookies(FormValue(r, pkgGoDevRedirectParam)),
          fCalls |-> 1]
    ELSE [Status |-> StatusFound, Location |-> <<pkgGoDevURL(r.URL)>>,
          SetCookie |-> ConsentCookies(FormValue(r, pkgGoDevRedirectParam)),
          fCalls |-> 0]

(* What the handler writes: the response's status (0: left to the wrapped  *)
(* handler), its Location, its Set-Cookie headers, and the calls of f.     *)
Response(r) ==
    IF userReturningFromPkgGoDev(r)
    THEN [Status |-> 0, Location |-> <<>>, SetCookie |-> <<>>, fCalls |-> 1]
    ELSE IF ~shouldRedirectToPkgGoDev(r)
    THEN [Status |-> 0, Location |-> <<>>,
          SetCookie |-> ConsentCookies(FormValue(r, pkgGoDevRedirectParam)),
          fCalls |-> 1]
    ELSE [Status |-> StatusFound, Location |-> <<pkgGoDevURL(r.URL)>>,
          SetCookie |-> ConsentCookies(FormValue(r, pkgGoDevRedirectParam)),
          fCalls |-> 0]

----------------------------------------------------------------------------
(* newGDDOEvent, makePkgGoDevRequest *)

(* Faulty variant: the event records whether the handler redirected the request *)
newGDDOEvent_ActualRedirect(r, isRobot, status) ==
    LET host == IF r.URL.Host = "" /\ r.Host # "" THEN r.Host ELSE r.URL.Host
    IN  [Host |-> host,
         Path |-> r.URL.Path,
         Status |-> status,
         URL |-> [Scheme |-> "https", Host |-> host, Path |-> r.URL.Path,
                  RawQuery |-> r.URL.RawQuery],
         IsRobot |-> isRobot,
         UsePkgGoDev |-> ~userReturningFromPkgGoDev(r) /\ shouldRedirectToPkgGoDev(r)]

newGDDOEvent(r, isRobot, status) ==
    LET host == IF r.URL.Host = "" /\ r.Host # "" THEN r.Host ELSE r.URL.Host
    IN  [Host |-> host,
         Path |-> r.URL.Path,
         Status |-> status,
         URL |-> [Scheme |-> "https", Host |-> host, Path |-> r.URL.Path,
                  RawQuery |-> r.URL.RawQuery],
         IsRobot |-> isRobot,
         UsePkgGoDev |-> shouldRedirectToPkgGoDev(r)]

(* <<>>: "not teeing request"; else the event posted to the teeproxy *)
TeeEvent(r, isRobot, status) ==
    IF ~shouldTeeRequest(r.URL.Path) THEN <<>>
    ELSE <<newGDDOEvent(r, isRobot, status)>>

----------------------------------------------------------------------------
(* the client *)

(* The cookie jar after one Set-Cookie header: a negative MaxAge is sent   *)
(* as Max-Age=0 and deletes the cookie, else the value is stored.          *)
RECURSIVE Store(_, _)
Store(j, cookies) ==
    IF cookies = <<>> THEN j
    ELSE Store(IF Head(cookies).MaxAge < 0 THEN <<>> ELSE <<Head(cookies).Value>>,
               Tail(cookies))

(* The Cookie header the client sends from its jar *)
CookiesOf(j) ==
    IF j = <<>> THEN <<>>
    ELSE <<[Name |-> pkgGoDevRedirectCookie, Value |-> j[1]]>>

----------------------------------------------------------------------------
(* inputs *)

RECURSIVE SeqsUpTo(_, _)
SeqsUpTo(S, n) ==
    IF n = 0 THEN {<<>>}
    ELSE LET shorter == SeqsUpTo(S, n - 1)
         IN  shorter \cup {Append(s, x) : s \in shorter, x \in S}

(* <<URL.Host, Host>>: a server sees an empty URL.Host unless the request  *)
(* line carries an absolute URL.                                           *)
Hosts == {<<"", "godoc.org">>, <<"", "api.godoc.org">>,
          <<"godoc.org", "godoc.org">>, <<"api.godoc.org", "api.godoc.org">>,
          <<"doc.api.org", "doc.api.org">>}

HandlerPaths == {"/pkg", "/-/refresh"}

HandlerPairs == {<<"redirect", "on">>, <<"redirect", "off">>, <<"redirect", "maybe">>,
                 <<"utm_source", "backtogodoc">>, <<"utm_source", "godoc">>}

HandlerQueries == SeqsUpTo(HandlerPairs, MaxQueryLen)

(* <<Method, ContentType, Body>> *)
Bodies == {<<"GET", "", <<>>>>,
           <<"POST", "application/x-www-form-urlencoded", <<<<"redirect", "on">>>>>>,
           <<"POST", "application/x-www-form-urlencoded", <<<<"redirect", "off">>>>>>,
           <<"POST", "multipart/form-data", <<<<"redirect", "off">>>>>>,
           <<"POST", "application/x-www-form-urlencoded", <<<<"utm_source", "backtogodoc">>>>>>}

Request(h, path, query, b, j) ==
    [Method |-> b[1],
     URL |-> [Host |-> h[1], Path |-> path, RawQuery |-> query],
     Host |-> h[2],
     ContentType |-> b[2],
     Body |-> b[3],
     Cookies |-> CookiesOf(j)]

NoRequest == Request(<<"", "">>, "", <<>>, <<"", "", <<>>>>, <<>>)

NoResponse == [Status |-> 0, Location |-> <<>>, SetCookie |-> <<>>, fCalls |-> 0]

Statuses == {200, 404}

URLPathDirs == {"", "/_ah", "/pkg", "/a.b", "/x/vendor", "/-", "/vendor.d"}

URLPathLeaves == {"", "/", "/vendor", "/vendor/x", "/vendored", "/go", "/about",
                  "/subrepo", "/bot", "/refresh", "/health", "/app.js", "/s.css",
                  "/i.html", "/r.txt", "/f.xml", "/x.jsx", "/.js", "/a.js/b",
                  "x.css", "/pkg."}

URLPaths == {d \o l : d \in URLPathDirs, l \in URLPathLeaves}

URLPairs == {<<"q", "json">>, <<"q", "">>, <<"imports", "">>, <<"importers", "">>,
             <<"utm_source", "backtogodoc">>}

URLQueries == SeqsUpTo(URLPairs, MaxQueryLen)

JarValues == {"on", "off", "yes"}

----------------------------------------------------------------------------
(* the handler, served to one client *)

Quiet ==
    /\ req = NoRequest
    /\ resp = NoResponse
    /\ event = <<>>
    /\ prev = "none"

NoPure ==
    /\ u = [Host |-> "", Path |-> "", RawQuery |-> <<>>]
    /\ dest = <<>>
    /\ teeOk = <<>>

(* A client that has never been given the cookie *)
Init ==
    /\ pc = "idle"
    /\ jar = <<>>
    /\ Quiet
    /\ NoPure

(* A client whose jar holds anything *)
InitAnyJar ==
    /\ pc = "idle"
    /\ jar \in {<<>>} \cup {<<v>> : v \in JarValues}
    /\ Quiet
    /\ NoPure

(* The client sends a request with its cookie and the handler serves it *)
Handle ==
    /\ pc = "idle"
    /\ \E h \in Hosts, path \in HandlerPaths, query \in HandlerQueries, b \in Bodies :
          /\ req' = Request(h, path, query, b, jar)
          /\ resp' = Response(req')
    /\ pc' = "handled"
    /\ UNCHANGED <<jar, prev, event, u, dest, teeOk>>

(* makePkgGoDevRequest runs on the served request *)
Tee ==
    /\ pc = "handled"
    /\ \E isRobot \in BOOLEAN, status \in Statuses :
          event' = TeeEvent(req, isRobot, status)
    /\ pc' = "teed"
    /\ UNCHANGED <<jar, prev, req, resp, u, dest, teeOk>>

(* What a request asked for: its redirect value, and "+back" when it came  *)
(* back from pkg.go.dev                                                    *)
Asked(r) ==
    (IF FormValue(r, pkgGoDevRedirectParam) \in {pkgGoDevRedirectOn, pkgGoDevRedirectOff}
     THEN FormValue(r, pkgGoDevRedirectParam) ELSE "other")
    \o (IF userReturningFromPkgGoDev(r) THEN "+back" ELSE "")

(* The client takes the response: its jar follows the Set-Cookie headers *)
Receive ==
    /\ pc = "teed"
    /\ jar' = Store(jar, resp.SetCookie)
    /\ prev' = Asked(req)
    /\ req' = NoRequest
    /\ resp' = NoResponse
    /\ event' = <<>>
    /\ pc' = "idle"
    /\ UNCHANGED <<u, dest, teeOk>>

Next == Handle \/ Tee \/ Receive

Spec == Init /\ [][Next]_vars

SpecAnyJar == InitAnyJar /\ [][Next]_vars

----------------------------------------------------------------------------
(* the pure functions, applied to every URL *)

InitURL ==
    /\ pc = "pure"
    /\ jar = <<>>
    /\ Quiet
    /\ u \in {[Host |-> "", Path |-> path, RawQuery |-> query] :
                 path \in URLPaths, query \in URLQueries}
    /\ dest = <<>>
    /\ teeOk = <<>>

ApplyPkgGoDevURL ==
    /\ pc = "pure"
    /\ dest = <<>>
    /\ dest' = <<pkgGoDevURL(u)>>
    /\ UNCHANGED <<jar, prev, req, resp, event, pc, u, teeOk>>

ApplyShouldTeeRequest ==
    /\ pc = "pure"
    /\ teeOk = <<>>
    /\ teeOk' = <<shouldTeeRequest(u.Path)>>
    /\ UNCHANGED <<jar, prev, req, resp, event, pc, u, dest>>

NextURL == ApplyPkgGoDevURL \/ ApplyShouldTeeRequest

SpecURL == InitURL /\ [][NextURL]_vars

----------------------------------------------------------------------------
(* Vocabulary of the properties *)

Served == pc \in {"handled", "teed"}

Redirected == resp.Status = StatusFound /\ resp.Location # <<>>

PassedOn == resp.fCalls = 1 /\ resp.Location = <<>> /\ resp.Status # StatusFound

IsAPIHost(r) == Len(r.URL.Host) >= 3 /\ SubSeq(r.URL.Host, 1, 3) = "api"

CookieIsOn(r) ==
    \E i \in 1..Len(r.Cookies) :
        /\ r.Cookies[i].Name = "pkggodev-redirect"
        /\ r.Cookies[i].Value = "on"

(* The first "redirect" value written in the URL's query *)
QueryRedirect(r) == First(r.URL.RawQuery, "redirect")

(* The "redirect" value of the parsed form *)
FormRedirect(r) == FormValue(r, "redirect")

CarriesMarker(r) == HasKey(Form(r), "utm_source")

CameBack(r) == \E i \in 1..Len(Form(r)) :
    /\ Form(r)[i] = <<"utm_source", "backtogodoc">>
    /\ \A j \in 1..(i - 1) : Form(r)[j][1] # "utm_source"

(* on => TRUE, off => FALSE, else the cookie *)
Decides(param, r) ==
    CASE param = "on" -> TRUE
      [] param = "off" -> FALSE
      [] OTHER -> CookieIsOn(r)

NoRedirectParam(r) == ~HasKey(r.URL.RawQuery, "redirect") /\ ~HasKey(r.Body, "redirect")

Recorded == pc = "teed" /\ event # <<>>

----------------------------------------------------------------------------
(* C1 *)

(* C1 as stated: on a non-API host the recorded decision is what the URL   *)
(* query's redirect parameter says when it is "on" or "off", and else what *)
(* the cookie says.                                                        *)
C1_QueryParameterDecides ==
    (Recorded /\ ~IsAPIHost(req)) =>
        event[1].UsePkgGoDev = Decides(QueryRedirect(req), req)

(* C1 amended: on a non-API host the decision is what the request's        *)
(* redirect form value says when it is "on" or "off", whatever the cookie, *)
(* and else it is true iff the cookie is present with value "on".          *)
C1_FormValueDecides ==
    (Recorded /\ ~IsAPIHost(req)) =>
        event[1].UsePkgGoDev = Decides(FormRedirect(req), req)

C1_Witness ==
    /\ Recorded
    /\ ~IsAPIHost(req)
    /\ QueryRedirect(req) = "off"
    /\ req.Body = <<>>
    /\ CookieIsOn(req)
    /\ ~event[1].UsePkgGoDev

----------------------------------------------------------------------------
(* C2 *)

(* C2 as stated: after any request asking redirect=on, a following         *)
(* cookie-only request to a non-API host is decided true; after any        *)
(* request asking redirect=off, false.                                     *)
C2_RoundTripAnyFirstRequest ==
    (Recorded /\ ~IsAPIHost(req) /\ NoRedirectParam(req)) =>
        /\ prev \in {"on", "on+back"} => event[1].UsePkgGoDev
        /\ prev \in {"off", "off+back"} => ~event[1].UsePkgGoDev

(* C2 amended: the round trip holds when the first request is not one      *)
(* returning from pkg.go.dev (its utm_source form value is not             *)
(* "backtogodoc"), whatever its host, other parameters and cookie.         *)
C2_RoundTrip ==
    (Recorded /\ ~IsAPIHost(req) /\ NoRedirectParam(req)) =>
        /\ prev = "on" => event[1].UsePkgGoDev
        /\ prev = "off" => ~event[1].UsePkgGoDev

C2_Witness ==
    /\ Recorded
    /\ ~IsAPIHost(req)
    /\ NoRedirectParam(req)
    /\ prev = "on"
    /\ req.URL.RawQuery = <<>>
    /\ CookieIsOn(req)
    /\ event[1].UsePkgGoDev

----------------------------------------------------------------------------
(* C3 *)

(* C3: a request whose URL host begins with "api" is passed to the wrapped *)
(* handler, is not redirected, and is recorded as not to be redirected,    *)
(* whatever its redirect parameter and cookie.                             *)
C3_APIHostNeverRedirected ==
    (Served /\ IsAPIHost(req)) =>
        /\ PassedOn
        /\ Recorded => ~event[1].UsePkgGoDev

C3_Witness ==
    /\ Recorded
    /\ IsAPIHost(req)
    /\ FormRedirect(req) = "on"
    /\ CookieIsOn(req)
    /\ PassedOn
    /\ ~event[1].UsePkgGoDev

----------------------------------------------------------------------------
(* C4 *)

(* C4 as stated: a request that carries a utm_source parameter, whatever   *)
(* its value, is passed to the wrapped handler and not redirected.         *)
C4_MarkerPresenceBypasses ==
    (Served /\ CarriesMarker(req)) => PassedOn

(* C4 amended: a request whose utm_source form value is "backtogodoc" is   *)
(* passed to the wrapped handler and not redirected, whatever the redirect *)
(* parameter and the cookie say; another utm_source value does not bypass. *)
C4_BackToGodocBypasses ==
    /\ (Served /\ CameBack(req)) => (PassedOn /\ resp.SetCookie = <<>>)
    /\ (Served /\ ~CameBack(req) /\ ~IsAPIHost(req) /\ Decides(FormRedirect(req), req))
          => Redirected

C4_Witness ==
    /\ Served
    /\ CameBack(req)
    /\ FormRedirect(req) = "on"
    /\ CookieIsOn(req)
    /\ ~IsAPIHost(req)
    /\ PassedOn

----------------------------------------------------------------------------
(* C5 *)

IsOnCookie(c) == c.Value = "on" /\ c.MaxAge >= 0 /\ c.Path = "/"

IsDeletion(c) == c.Value = "" /\ c.MaxAge = -1 /\ c.Path = "/"

(* C5: from a client without the cookie, the stored cookie is always       *)
(* absent or "on"; the handler writes "on" only for redirect=on and writes *)
(* for redirect=off only a deletion (empty value, MaxAge -1, path "/").    *)
C5_CookieOnOrAbsent ==
    /\ jar \in {<<>>, <<"on">>}
    /\ \A i \in 1..Len(resp.SetCookie) :
          /\ resp.SetCookie[i].Name = "pkggodev-redirect"
          /\ \/ IsOnCookie(resp.SetCookie[i]) /\ FormRedirect(req) = "on"
             \/ IsDeletion(resp.SetCookie[i]) /\ FormRedirect(req) = "off"
    /\ (Served /\ ~CameBack(req) /\ FormRedirect(req) = "off")
          => (Len(resp.SetCookie) = 1 /\ IsDeletion(resp.SetCookie[1]))

C5_Witness ==
    /\ pc = "teed"
    /\ jar = <<"on">>
    /\ FormRedirect(req) = "off"
    /\ Len(resp.SetCookie) = 1
    /\ IsDeletion(resp.SetCookie[1])
    /\ Store(jar, resp.SetCookie) = <<>>

----------------------------------------------------------------------------
(* C6 *)

Params(url) == {url.RawQuery[i] : i \in 1..Len(url.RawQuery)}

IsVendored(path) ==
    \/ \E i \in 1..Len(path) : Len(path) >= i + 7 /\ SubSeq(path, i, i + 7) = "/vendor/"
    \/ (Len(path) >= 7 /\ SubSeq(path, Len(path) - 6, Len(path)) = "/vendor")

Literals == {"/-/go", "/-/about", "/-/subrepo", "/"}

Tab(url) ==
    IF \E i \in 1..Len(url.RawQuery) : url.RawQuery[i][1] = "imports" THEN "imports"
    ELSE IF \E i \in 1..Len(url.RawQuery) : url.RawQuery[i][1] = "importers" THEN "importedby"
    ELSE "doc"

Attribution == <<"utm_source", "godoc">>

(* C6: the destination follows exactly one rule, in the order vendor,      *)
(* exact literal, default.                                                 *)
C6_OneRuleInOrder ==
    dest # <<>> =>
        LET d == dest[1]
            q == First(u.RawQuery, "q")
        IN  /\ IsVendored(u.Path) => (d.Path = "/" /\ Params(d) = {Attribution})
            /\ (~IsVendored(u.Path) /\ u.Path = "/-/go")
                  => (d.Path = "/std" /\ Params(d) = {Attribution, <<"tab", "packages">>})
            /\ (~IsVendored(u.Path) /\ u.Path = "/-/about")
                  => (d.Path = "/about" /\ Params(d) = {Attribution})
            /\ (~IsVendored(u.Path) /\ u.Path = "/-/subrepo")
                  => (d.Path = "/search" /\ Params(d) = {Attribution, <<"q", "golang.org/x">>})
            /\ (~IsVendored(u.Path) /\ u.Path = "/" /\ q # "")
                  => (d.Path = "/search" /\ Params(d) = {Attribution, <<"q", q>>})
            /\ (~IsVendored(u.Path) /\ u.Path = "/" /\ q = "")
                  => (d.Path = "/" /\ Params(d) = {Attribution})
            /\ (~IsVendored(u.Path) /\ u.Path \notin Literals)
                  => (d.Path = u.Path /\ Params(d) = {Attribution, <<"tab", Tab(u)>>})
            /\ Len(d.RawQuery) = Cardinality(Params(d))

C6_Witness ==
    /\ dest # <<>>
    /\ u.Path = "/x/vendor/go"
    /\ u.RawQuery = <<<<"importers", "">>, <<"imports", "">>>>
    /\ dest[1].Path = "/"
    /\ dest[1].RawQuery = <<Attribution>>

----------------------------------------------------------------------------
(* C7 *)

(* C7: every path and query has a destination, and it is an https URL on   *)
(* pkg.go.dev whose query carries utm_source=godoc.                        *)
C7_AlwaysOnNewSite ==
    /\ (pc = "pure" /\ dest = <<>>) => ENABLED ApplyPkgGoDevURL
    /\ dest # <<>> =>
          /\ dest[1].Scheme = "https"
          /\ dest[1].Host = "pkg.go.dev"
          /\ Attribution \in Params(dest[1])
          /\ \A p \in Params(dest[1]) : p[1] = "utm_source" => p = Attribution

C7_Witness ==
    /\ dest # <<>>
    /\ u.Path = ""
    /\ u.RawQuery = <<<<"utm_source", "backtogodoc">>, <<"q", "json">>>>
    /\ dest[1].Host = "pkg.go.dev"
    /\ dest[1].Path = ""

----------------------------------------------------------------------------
(* C8 *)

Slashes(path) == {i \in 1..Len(path) : SubSeq(path, i, i) = "/"}

FinalSegment(path) ==
    IF Slashes(path) = {} THEN path
    ELSE SubSeq(path, (CHOOSE i \in Slashes(path) : \A j \in Slashes(path) : j <= i) + 1,
                Len(path))

Dots(seg) == {i \in 1..Len(seg) : SubSeq(seg, i, i) = "."}

Extension(seg) ==
    IF Dots(seg) = {} THEN ""
    ELSE SubSeq(seg, CHOOSE i \in Dots(seg) : \A j \in Dots(seg) : j <= i, Len(seg))

(* C8: a path is not teed iff it begins with "/_ah/", or its final         *)
(* segment's extension is .css, .html, .js, .txt or .xml, or it is         *)
(* "/-/bot" or "/-/refresh".                                               *)
C8_TeeFilter ==
    teeOk # <<>> =>
        (teeOk[1] = FALSE <=>
            \/ (Len(u.Path) >= 5 /\ SubSeq(u.Path, 1, 5) = "/_ah/")
            \/ Extension(FinalSegment(u.Path)) \in {".css", ".html", ".js", ".txt", ".xml"}
            \/ u.Path \in {"/-/bot", "/-/refresh"})

C8_Witness ==
    /\ teeOk = <<TRUE>>
    /\ u.Path = "/a.b/a.js/b"

----------------------------------------------------------------------------
(* C9 *)

(* C9: the event records shouldRedirectToPkgGoDev of its request, also     *)
(* when that request came back from pkg.go.dev and was therefore not       *)
(* redirected.                                                             *)
C9_EventRecordsIntent ==
    Recorded =>
        /\ event[1].UsePkgGoDev = shouldRedirectToPkgGoDev(req)
        /\ (CameBack(req) /\ ~IsAPIHost(req) /\ Decides(FormRedirect(req), req))
              => (event[1].UsePkgGoDev /\ PassedOn)

C9_Witness ==
    /\ Recorded
    /\ CameBack(req)
    /\ ~IsAPIHost(req)
    /\ FormRedirect(req) = ""
    /\ CookieIsOn(req)
    /\ event[1].UsePkgGoDev
    /\ PassedOn

----------------------------------------------------------------------------
(* C10 *)

(* C10: the handler either redirects once with 302 to pkgGoDevURL of the   *)
(* request's URL without calling the wrapped handler, or calls the wrapped *)
(* handler once without redirecting; it redirects iff the request did not  *)
(* come back from pkg.go.dev and the decision is to redirect.              *)
C10_OneOutcome ==
    Served =>
        /\ \/ (Redirected /\ resp.fCalls = 0 /\ resp.Location = <<pkgGoDevURL(req.URL)>>)
           \/ (PassedOn /\ ~Redirected)
        /\ Redirected <=>
              (~CameBack(req) /\ ~IsAPIHost(req) /\ Decides(FormRedirect(req), req))

C10_Witness ==
    /\ Served
    /\ Redirected
    /\ resp.fCalls = 0
    /\ req.URL.RawQuery = <<<<"utm_source", "godoc">>>>
    /\ CookieIsOn(req)

====
